---- MODULE Spec2Model ----
(***************************************************************************)
(* The MAPIP DAG-to-DAG instruction selector (MAPIPISelDAGToDAG, carried   *)
(* in lib/Support/ToolRunner.cpp): the addressing-mode matcher             *)
(* (MatchAddress, MatchWrapper, MatchAddressBase), the memory operand      *)
(* synthesizer (SelectAddr), the inline-asm adapter                        *)
(* (SelectInlineAsmMemoryOperand) and the node selector (Select).          *)
(*                                                                         *)
(* An SDValue is a tuple whose first element is its opcode:                *)
(*   <<"Constant", v>>            ConstantSDNode, v its sign-extended value*)
(*   <<"FrameIndex", i>>          FrameIndexSDNode                         *)
(*   <<"Other", r>>               any opcode the matcher has no case for   *)
(*   <<"Wrapper", payload>>       MAPIPISD::Wrapper, payload = operand 0   *)
(*   <<"ADD", op0, op1>>          ISD::ADD                                 *)
(*   <<"OR", op0, op1, z>>        ISD::OR; z is the answer the DAG gives to *)
(*                                MaskedValueIsZero(op0, value of op1)     *)
(*   <<"null">>                   an SDValue whose getNode() is 0          *)
(* Wrapper payloads:                                                       *)
(*   <<"GlobalAddress", gv, offset>>, <<"ConstantPool", cp, align, offset>>,*)
(*   <<"ExternalSymbol", es>>, <<"JumpTable", index>>,                     *)
(*   <<"BlockAddress", ba>>                                                *)
(***************************************************************************)
EXTENDS Integers, Sequences, FiniteSets, TLC

VARIABLES
    am,        \* the MAPIPISelAddressMode the matcher calls work on
    calls,     \* match calls made on am since it was constructed
    lastOp,    \* the call that produced this state
    lastN,     \* its node argument
    preAM,     \* am at entry to that call
    ret,       \* what the call returned (TRUE = no match)
    Base,      \* SelectAddr's Base result
    Disp,      \* SelectAddr's Disp result
    selRet,    \* what SelectAddr returned (TRUE = matched)
    selN,      \* the node SelectAddr was called on
    selAM,     \* SelectAddr's local address mode as MatchAddress left it
    rematch,   \* this SelectAddr call is on the node of the call before it
    OutOps,    \* SelectInlineAsmMemoryOperand's output operand list
    preOutOps, \* OutOps at entry to the last SelectInlineAsmMemoryOperand call
    asmOp,     \* its Op argument
    asmCode,   \* its ConstraintCode argument
    asmRet,    \* what it returned (TRUE = failure)
    asmMatched,\* whether it ran SelectAddr
    dag,       \* CurDAG's nodes, by identity
    preDag,    \* dag at entry to the last Select call
    selNode,   \* the node Select was called on
    selResult, \* the node Select returned (0 = NULL)
    toolOp,    \* the AbstractInterpreter or GCC entry point being executed
    fileType,  \* the GCC::FileType its gcc run is given
    toolPc,    \* where that entry point stands
    runs,      \* the RunProgramWithTimeout calls it has made, in order
    outcome,   \* how it ended: return value, exception or exit
    stack,     \* the active MatchAddress invocations, outermost first
    curAM,     \* the address mode they all work on (passed by reference)
    stepRet,   \* what the invocation that returned last returned
    nCalls,    \* MatchAddress invocations made since the outermost call
    root,      \* the node of the outermost call
    rootAM     \* the address mode at the outermost call

matchVars == <<am, calls, lastOp, lastN, preAM, ret>>
addrVars == <<Base, Disp, selRet, selN, selAM, rematch>>
asmVars == <<OutOps, preOutOps, asmOp, asmCode, asmRet, asmMatched>>
iselVars == <<dag, preDag, selNode, selResult>>
toolVars == <<toolOp, fileType, toolPc, runs, outcome>>
stepVars == <<stack, curAM, stepRet, nCalls, root, rootAM>>

vars == <<matchVars, addrVars, asmVars, iselVars, toolVars, stepVars>>

-----------------------------------------------------------------------------
(* Bounds and program constants *)

\* Match calls made on one address mode before it is discarded.
MaxCalls == 2

\* Width of MAPIPISelAddressMode::Disp (int16_t).
DispBits == 16

-----------------------------------------------------------------------------
(* Values *)

NullNode == <<"null">>
NullPtr == "null"
NoJT == -1

Opcode(N) == N[1]

\* Values an uninitialized int can hold.
Indeterminate == {-7, 9}

Pow2(n) == 2 ^ n

\* Conversion of an integer to int16_t.
ToInt16(x) ==
    ((x + Pow2(DispBits - 1)) % Pow2(DispBits)) - Pow2(DispBits - 1)

\* A constructor that also leaves Disp uninitialized.
NewAddressModeDispUnset(g) ==
    [BaseType |-> "RegBase", Reg |-> NullNode, FrameIndex |-> g,
     Disp |-> g, GV |-> NullPtr, CP |-> NullPtr, BlockAddr |-> NullPtr,
     ES |-> NullPtr, JT |-> NoJT, Align |-> 0]

\* MAPIPISelAddressMode(): every field but Base.FrameIndex is initialized.
NewAddressMode(g) ==
    [BaseType |-> "RegBase", Reg |-> NullNode, FrameIndex |-> g,
     Disp |-> 0, GV |-> NullPtr, CP |-> NullPtr, BlockAddr |-> NullPtr,
     ES |-> NullPtr, JT |-> NoJT, Align |-> 0]

hasSymbolicDisplacement(AM) ==
    AM.GV # NullPtr \/ AM.CP # NullPtr \/ AM.ES # NullPtr \/ AM.JT # NoJT

-----------------------------------------------------------------------------
(* The matcher.  Every operator returns [ret, AM]: the bool the C++        *)
(* function returns (TRUE = no match) and the address mode it leaves.      *)

\* MatchWrapper without the additions of G->getOffset() and CP->getOffset().
MatchWrapperDropsOffset(N, AM) ==
    IF hasSymbolicDisplacement(AM)
    THEN [ret |-> TRUE, AM |-> AM]
    ELSE LET N0 == N[2] IN
         [ret |-> FALSE,
          AM |->
            CASE Opcode(N0) = "GlobalAddress" -> [AM EXCEPT !.GV = N0[2]]
              [] Opcode(N0) = "ConstantPool" ->
                   [AM EXCEPT !.CP = N0[2], !.Align = N0[3]]
              [] Opcode(N0) = "ExternalSymbol" -> [AM EXCEPT !.ES = N0[2]]
              [] Opcode(N0) = "JumpTable" -> [AM EXCEPT !.JT = N0[2]]
              [] OTHER -> [AM EXCEPT !.BlockAddr = N0[2]]]

MatchWrapper(N, AM) ==
    IF hasSymbolicDisplacement(AM)
    THEN [ret |-> TRUE, AM |-> AM]
    ELSE LET N0 == N[2] IN
         [ret |-> FALSE,
          AM |->
            CASE Opcode(N0) = "GlobalAddress" ->
                   [AM EXCEPT !.GV = N0[2], !.Disp = ToInt16(@ + N0[3])]
              [] Opcode(N0) = "ConstantPool" ->
                   [AM EXCEPT !.CP = N0[2], !.Align = N0[3],
                              !.Disp = ToInt16(@ + N0[4])]
              [] Opcode(N0) = "ExternalSymbol" -> [AM EXCEPT !.ES = N0[2]]
              [] Opcode(N0) = "JumpTable" -> [AM EXCEPT !.JT = N0[2]]
              [] OTHER -> [AM EXCEPT !.BlockAddr = N0[2]]]

\* MatchAddressBase without its test of the base being occupied.
MatchAddressBaseOverwrites(N, AM) ==
    [ret |-> FALSE, AM |-> [AM EXCEPT !.BaseType = "RegBase", !.Reg = N]]

\* MatchAddressBase refusing even when no base is committed.
MatchAddressBaseRefuses(N, AM) == [ret |-> TRUE, AM |-> AM]

MatchAddressBase(N, AM) ==
    IF AM.BaseType # "RegBase" \/ AM.Reg # NullNode
    THEN [ret |-> TRUE, AM |-> AM]
    ELSE [ret |-> FALSE, AM |-> [AM EXCEPT !.BaseType = "RegBase", !.Reg = N]]

\* The Constant case adding into a displacement wider than int16_t.
MatchConstantUnwrapped(N, AM) ==
    [ret |-> FALSE, AM |-> [AM EXCEPT !.Disp = @ + N[2]]]

\* case ISD::Constant
MatchConstant(N, AM) ==
    [ret |-> FALSE, AM |-> [AM EXCEPT !.Disp = ToInt16(@ + N[2])]]

\* case ISD::FrameIndex, up to its break
FrameIndexFits(AM) == AM.BaseType = "RegBase" /\ AM.Reg = NullNode

\* The FrameIndex case storing the index without switching the base type.
MatchFrameIndexKeepsBaseType(N, AM) ==
    [ret |-> FALSE, AM |-> [AM EXCEPT !.FrameIndex = N[2]]]

MatchFrameIndex(N, AM) ==
    [ret |-> FALSE,
     AM |-> [AM EXCEPT !.BaseType = "FrameIndexBase", !.FrameIndex = N[2]]]

\* CurDAG->MaskedValueIsZero(N.getOperand(0), CN->getAPIntValue()) for an OR node
MaskedValueIsZero(N) == N[4]

\* The OR case without the MaskedValueIsZero test.
OrFoldsUnchecked(N, L) == ~L.ret /\ L.AM.GV = NullPtr

\* case ISD::OR: the condition under which the OR is folded, L being the
\* result of matching operand 0
OrFolds(N, L) == ~L.ret /\ L.AM.GV = NullPtr /\ MaskedValueIsZero(N)

\* The OR case without "AM = Backup".
OrKeepsTrial(Backup, L) == L.AM

\* case ISD::OR: the address mode the base rule gets when the OR is not folded
OrRestore(Backup, L) == Backup

\* The second ADD trial left standing instead of "AM = Backup".
AddKeepsTrial(Backup, T) == T

\* "AM = Backup" after the second ADD trial has failed.
AddRestore(Backup, T) == Backup

RECURSIVE MatchAddress(_, _)
MatchAddress(N, AM) ==
    CASE Opcode(N) = "Constant" -> MatchConstant(N, AM)
      [] Opcode(N) = "Wrapper" ->
           LET W == MatchWrapper(N, AM) IN
           IF ~W.ret THEN W ELSE MatchAddressBase(N, W.AM)
      [] Opcode(N) = "FrameIndex" ->
           IF FrameIndexFits(AM) THEN MatchFrameIndex(N, AM)
           ELSE MatchAddressBase(N, AM)
      [] Opcode(N) = "ADD" ->
           LET Backup == AM
               A0 == MatchAddress(N[2], AM)
               A1 == MatchAddress(N[3], A0.AM)
               B1 == MatchAddress(N[3], Backup)
               B0 == MatchAddress(N[2], B1.AM)
           IN IF ~A0.ret /\ ~A1.ret THEN A1
              ELSE IF ~B1.ret /\ ~B0.ret THEN B0
              ELSE MatchAddressBase(N,
                     AddRestore(Backup, IF B1.ret THEN B1.AM ELSE B0.AM))
      [] Opcode(N) = "OR" ->
           IF Opcode(N[3]) = "Constant"
           THEN LET Backup == AM
                    Offset == N[3][2]
                    L == MatchAddress(N[2], AM)
                IN IF OrFolds(N, L)
                   THEN [ret |-> FALSE,
                         AM |-> [L.AM EXCEPT !.Disp = ToInt16(@ + Offset)]]
                   ELSE MatchAddressBase(N, OrRestore(Backup, L))
           ELSE MatchAddressBase(N, AM)
      [] OTHER -> MatchAddressBase(N, AM)

-----------------------------------------------------------------------------
(* The nodes the calls are made on *)

ConstVals == {-32768, 8, 32767}
Consts == {<<"Constant", v>> : v \in ConstVals}
FrameIndexes == {<<"FrameIndex", i>> : i \in {1, 5}}
Others == {<<"Other", r>> : r \in {1, 2}}

WGlobal == <<"Wrapper", <<"GlobalAddress", "G", 4>>>>
WConstPool == <<"Wrapper", <<"ConstantPool", "K", 2, 6>>>>
WExternal == <<"Wrapper", <<"ExternalSymbol", "memcpy">>>>
WJumpTable == <<"Wrapper", <<"JumpTable", 3>>>>
WBlockAddr == <<"Wrapper", <<"BlockAddress", "L">>>>
Wrappers == {WGlobal, WConstPool, WExternal, WJumpTable, WBlockAddr}

Leaves == Consts \cup FrameIndexes \cup Others \cup Wrappers

C8 == <<"Constant", 8>>
FI5 == <<"FrameIndex", 5>>
R1 == <<"Other", 1>>

\* ADD(Wrapper(GlobalAddress G + 4), Constant 2)
GlobalPlusTwo == <<"ADD", WGlobal, <<"Constant", 2>>>>

\* Operands of the compound nodes used in call sequences.
SeqOperands == {C8, FI5, R1, WGlobal, WBlockAddr}

SeqNodes ==
    Leaves
    \cup {<<"ADD", a, b>> : a \in SeqOperands, b \in SeqOperands}
    \cup {<<"OR", a, C8, z>> : a \in {FI5, R1, WGlobal, WExternal}, z \in BOOLEAN}
    \cup {<<"OR", R1, <<"Other", 2>>, FALSE>>}
    \cup {GlobalPlusTwo}

\* The nodes SelectAddr is called on: also every ADD and OR of two leaves, and
\* the nodes one level deeper.
ConstSums ==
    {<<"ADD", <<"ADD", a, b>>, c>> : a \in Consts, b \in Consts, c \in Consts}
    \cup {<<"ADD", C8, <<"ADD", b, c>>>> : b \in Consts, c \in Consts}

Nodes ==
    SeqNodes
    \cup {<<"ADD", a, b>> : a \in Leaves, b \in Leaves}
    \cup {<<"OR", a, C8, z>> : a \in Leaves \ Consts, z \in BOOLEAN}
    \cup ConstSums
    \cup {<<"ADD", a, C8>> : a \in SeqNodes \ Leaves}
    \cup {<<"OR", <<"ADD", a, b>>, C8, z>> :
            a \in {FI5, R1, WGlobal}, b \in {C8, R1, WGlobal}, z \in BOOLEAN}

\* The nodes SelectInlineAsmMemoryOperand is called on.
AsmNodes ==
    SeqOperands
    \cup {<<"ADD", FI5, C8>>, <<"ADD", R1, <<"Other", 2>>>>, <<"ADD", WGlobal, C8>>,
          <<"OR", R1, C8, TRUE>>, <<"OR", WGlobal, C8, TRUE>>}

ConstraintCodes == {"m", "r", "o"}

-----------------------------------------------------------------------------
(* SelectAddr *)

\* The Base operand.
BaseOperand(AM) ==
    IF AM.BaseType = "FrameIndexBase"
    THEN <<"TargetFrameIndex", AM.FrameIndex>>
    ELSE IF AM.Reg = NullNode THEN <<"Register", 0>> ELSE AM.Reg

\* The Disp operand with the block address tested first.
DispOperandBlockAddrFirst(AM) ==
    IF AM.BlockAddr # NullPtr THEN <<"TargetBlockAddress", AM.BlockAddr>>
    ELSE IF AM.GV # NullPtr THEN <<"TargetGlobalAddress", AM.GV, AM.Disp>>
    ELSE IF AM.CP # NullPtr THEN <<"TargetConstantPool", AM.CP, AM.Align, AM.Disp>>
    ELSE IF AM.ES # NullPtr THEN <<"TargetExternalSymbol", AM.ES>>
    ELSE IF AM.JT # NoJT THEN <<"TargetJumpTable", AM.JT>>
    ELSE <<"TargetConstant", AM.Disp>>

\* The Disp operand.
DispOperand(AM) ==
    IF AM.GV # NullPtr THEN <<"TargetGlobalAddress", AM.GV, AM.Disp>>
    ELSE IF AM.CP # NullPtr THEN <<"TargetConstantPool", AM.CP, AM.Align, AM.Disp>>
    ELSE IF AM.ES # NullPtr THEN <<"TargetExternalSymbol", AM.ES>>
    ELSE IF AM.JT # NoJT THEN <<"TargetJumpTable", AM.JT>>
    ELSE IF AM.BlockAddr # NullPtr THEN <<"TargetBlockAddress", AM.BlockAddr>>
    ELSE <<"TargetConstant", AM.Disp>>

\* SelectAddr(N, Base, Disp) with Base.FrameIndex of its local AM holding g at
\* construction; b and d are what Base and Disp hold at entry.
SelectAddr(N, g, b, d) ==
    LET M == MatchAddress(N, NewAddressMode(g)) IN
    IF M.ret
    THEN [ret |-> FALSE, Base |-> b, Disp |-> d, AM |-> M.AM]
    ELSE [ret |-> TRUE, Base |-> BaseOperand(M.AM), Disp |-> DispOperand(M.AM),
          AM |-> M.AM]

\* SelectInlineAsmMemoryOperand with every constraint code taking the 'm' case.
SelectInlineAsmMemoryOperandAnyCode(Op, ConstraintCode, Ops, g) ==
    LET S == SelectAddr(Op, g, NullNode, NullNode) IN
    IF ~S.ret
    THEN [ret |-> TRUE, OutOps |-> Ops, matched |-> TRUE]
    ELSE [ret |-> FALSE, OutOps |-> Append(Append(Ops, S.Base), S.Disp),
          matched |-> TRUE]

\* SelectInlineAsmMemoryOperand(Op, ConstraintCode, OutOps)
SelectInlineAsmMemoryOperand(Op, ConstraintCode, Ops, g) ==
    IF ConstraintCode # "m"
    THEN [ret |-> TRUE, OutOps |-> Ops, matched |-> FALSE]
    ELSE LET S == SelectAddr(Op, g, NullNode, NullNode) IN
         IF ~S.ret
         THEN [ret |-> TRUE, OutOps |-> Ops, matched |-> TRUE]
         ELSE [ret |-> FALSE, OutOps |-> Append(Append(Ops, S.Base), S.Disp),
               matched |-> TRUE]

-----------------------------------------------------------------------------
(* ToolRunner: running llc and gcc *)

\* Exit codes of a tool run: killed or not executable, success, failure.
ExitCodes == {-1, 0, 1}

\* What a captured rerun can leave in the error file.
ErrorTexts == {"", "error"}

FileTypes == {"AsmFile", "CFile"}

EntryPoints ==
    {"LLC::compileProgram", "LLC::ExecuteProgram", "CBE::compileProgram",
     "CBE::ExecuteProgram", "GCC::ExecuteProgram", "GCC::MakeSharedObject"}

\* The command line built by LLC::OutputAsm and CBE::OutputC.
LLCArgs(op) ==
    IF op \in {"LLC::compileProgram", "LLC::ExecuteProgram"}
    THEN <<"llc", "-o", "-f">>
    ELSE <<"llc", "-o", "-march=c", "-f">>

\* The command line built by GCC::ExecuteProgram and GCC::MakeSharedObject.
GCCArgs(op, ft) ==
    IF op = "GCC::MakeSharedObject"
    THEN <<"gcc", "-x", IF ft = "AsmFile" THEN "assembler" ELSE "c",
           "-fno-strict-aliasing", "-shared", "-o", "-O2">>
    ELSE IF ft = "CFile"
         THEN <<"gcc", "-x", "c", "-fno-strict-aliasing", "-o", "-lm", "-O2">>
         ELSE <<"gcc", "-x", "assembler", "-o", "-lm", "-O2">>

\* One RunProgramWithTimeout call: the tool, its command line, whether stdout
\* and stderr went to the error file, the exit code, and, for a captured run,
\* whether the error file can be opened afterwards and what it holds.
Run(tool, Args, captured, exit, opens, text) ==
    [tool |-> tool, Args |-> Args, captured |-> captured, exit |-> exit,
     opens |-> opens, text |-> text]

NoOutcome == [kind |-> "none", value |-> 0, Args |-> << >>, messages |-> ""]
Returned(v) == [kind |-> "return", value |-> v, Args |-> << >>, messages |-> ""]
Exited(v) == [kind |-> "exit", value |-> v, Args |-> << >>, messages |-> ""]
Thrown(Args, messages) ==
    [kind |-> "throw", value |-> 0, Args |-> Args, messages |-> messages]

\* ProcessFailure returning to its caller instead of throwing.
ProcessFailureReturns(Args, opens, text) ==
    [throws |-> FALSE, Args |-> Args, messages |-> IF opens THEN text ELSE ""]

\* ProcessFailure(ProgPath, Args) after its rerun: the message holds the
\* command line and, if the error file opens, its contents; it is thrown.
ProcessFailure(Args, opens, text) ==
    [throws |-> TRUE, Args |-> Args, messages |-> IF opens THEN text ELSE ""]

-----------------------------------------------------------------------------
(* Select *)

\* Node slots of the DAG, and uses a node of the input DAG can have.
MaxNodes == 4
MaxUses == 2

NodeIds == 1..MaxNodes

FreeSlot == [Opc |-> "free", Machine |-> FALSE, FI |-> 0, Uses |-> 0, Ops |-> << >>]

\* The nodes of an input DAG: frame indexes, nodes of other opcodes and nodes
\* that are machine nodes already.
InputNodes ==
    {[Opc |-> "FrameIndex", Machine |-> FALSE, FI |-> i, Uses |-> u, Ops |-> << >>] :
        i \in {1, 5}, u \in 0..MaxUses}
    \cup {[Opc |-> "Other", Machine |-> FALSE, FI |-> 0, Uses |-> u, Ops |-> << >>] :
        u \in 0..MaxUses}
    \cup {[Opc |-> "MOV16rr", Machine |-> TRUE, FI |-> 0, Uses |-> 1, Ops |-> << >>]}

\* Input DAGs: the last two slots are free for the nodes selection allocates.
InputDAGs ==
    {D \in [NodeIds -> InputNodes \cup {FreeSlot}] :
        \A i \in NodeIds : (D[i] = FreeSlot) <=> (i > MaxNodes - 2)}

hasOneUse(Node) == Node.Uses = 1

\* CurDAG->SelectNodeTo(N, MachineOpc, VT, Op1, Op2): N is morphed in place and returned.
SelectNodeTo(D, id, opc, ops) ==
    [dag |-> [D EXCEPT ![id] = [Opc |-> opc, Machine |-> TRUE, FI |-> 0,
                                Uses |-> D[id].Uses, Ops |-> ops]],
     result |-> id]

\* CurDAG->getMachineNode(Opcode, dl, VT, Op1, Op2): a node is allocated and returned.
getMachineNode(D, opc, ops) ==
    LET new == CHOOSE i \in NodeIds :
                   D[i] = FreeSlot /\ \A j \in NodeIds : D[j] = FreeSlot => i <= j
    IN [dag |-> [D EXCEPT ![new] = [Opc |-> opc, Machine |-> TRUE, FI |-> 0,
                                    Uses |-> 0, Ops |-> ops]],
        result |-> new]

\* SelectCode(Node), the generated matcher: it returns NULL or the node morphed
\* into a machine node.
SelectCode(D, id, generic) ==
    IF generic = "null" THEN [dag |-> D, result |-> 0]
    ELSE SelectNodeTo(D, id, "MachineOp", D[id].Ops)

\* The FrameIndex case rewriting the node in place whatever its uses.
SelectFrameIndexInPlace(D, id) ==
    SelectNodeTo(D, id, "ADD16ri",
                 <<<<"TargetFrameIndex", D[id].FI>>, <<"TargetConstant", 0>>>>)

\* The ISD::FrameIndex case of Select.
SelectFrameIndex(D, id) ==
    LET FI == D[id].FI
        TFI == <<"TargetFrameIndex", FI>>
        Zero == <<"TargetConstant", 0>>
    IN IF hasOneUse(D[id])
       THEN SelectNodeTo(D, id, "ADD16ri", <<TFI, Zero>>)
       ELSE getMachineNode(D, "ADD16ri", <<TFI, Zero>>)

\* SDNode *Select(SDNode *Node)
Select(D, id, generic) ==
    IF D[id].Machine THEN [dag |-> D, result |-> 0]
    ELSE IF D[id].Opc = "FrameIndex" THEN SelectFrameIndex(D, id)
    ELSE SelectCode(D, id, generic)

-----------------------------------------------------------------------------
(* Initial state *)

Init ==
    /\ am = NullNode
    /\ calls = 0
    /\ lastOp = "none"
    /\ lastN = NullNode
    /\ preAM = NullNode
    /\ ret = FALSE
    /\ Base = NullNode
    /\ Disp = NullNode
    /\ selRet = FALSE
    /\ selN = NullNode
    /\ selAM = NullNode
    /\ rematch = FALSE
    /\ OutOps = << >>
    /\ preOutOps = << >>
    /\ asmOp = NullNode
    /\ asmCode = "m"
    /\ asmRet = FALSE
    /\ asmMatched = FALSE
    /\ dag = << >>
    /\ preDag = << >>
    /\ selNode = 0
    /\ selResult = 0
    /\ toolOp = "none"
    /\ fileType = "AsmFile"
    /\ toolPc = "idle"
    /\ runs = << >>
    /\ outcome = NoOutcome
    /\ stack = << >>
    /\ curAM = NullNode
    /\ stepRet = FALSE
    /\ nCalls = 0
    /\ root = NullNode
    /\ rootAM = NullNode

-----------------------------------------------------------------------------
(* Calls on one address mode *)

\* MAPIPISelAddressMode AM;
Construct ==
    /\ \E g \in Indeterminate : am' = NewAddressMode(g)
    /\ calls' = 0
    /\ lastOp' = "construct"
    /\ lastN' = NullNode
    /\ preAM' = am'
    /\ ret' = FALSE
    /\ UNCHANGED <<addrVars, asmVars, iselVars, toolVars, stepVars>>

Call(op, N, R) ==
    /\ lastOp # "none"
    /\ calls < MaxCalls
    /\ calls' = calls + 1
    /\ lastOp' = op
    /\ lastN' = N
    /\ preAM' = am
    /\ am' = R.AM
    /\ ret' = R.ret
    /\ UNCHANGED <<addrVars, asmVars, iselVars, toolVars, stepVars>>

MatchAddressCall ==
    /\ lastOp # "none"
    /\ \E N \in SeqNodes : Call("MatchAddress", N, MatchAddress(N, am))

MatchWrapperCall ==
    /\ lastOp # "none"
    /\ \E N \in Wrappers : Call("MatchWrapper", N, MatchWrapper(N, am))

MatchAddressBaseCall ==
    /\ lastOp # "none"
    /\ \E N \in SeqOperands : Call("MatchAddressBase", N, MatchAddressBase(N, am))

Next ==
    \/ Construct
    \/ MatchAddressCall
    \/ MatchWrapperCall
    \/ MatchAddressBaseCall

Spec == Init /\ [][Next]_vars

-----------------------------------------------------------------------------
(* SelectAddr calls *)

SelectAddrCall ==
    \E N \in Nodes, g \in Indeterminate :
        LET S == SelectAddr(N, g, Base, Disp) IN
        /\ selRet' = S.ret
        /\ Base' = S.Base
        /\ Disp' = S.Disp
        /\ selN' = N
        /\ selAM' = S.AM
        /\ rematch' = (selN = N)
        /\ UNCHANGED <<matchVars, asmVars, iselVars, toolVars, stepVars>>

NextAddr == SelectAddrCall

SpecAddr == Init /\ [][NextAddr]_vars

-----------------------------------------------------------------------------
(* SelectInlineAsmMemoryOperand calls *)

\* Length of OutOps beyond which no further call is made.
MaxOutOps == 3

SelectInlineAsmMemoryOperandCall ==
    /\ Len(OutOps) < MaxOutOps
    /\ \E Op \in AsmNodes, c \in ConstraintCodes, g \in Indeterminate :
        LET S == SelectInlineAsmMemoryOperand(Op, c, OutOps, g) IN
        /\ preOutOps' = OutOps
        /\ OutOps' = S.OutOps
        /\ asmOp' = Op
        /\ asmCode' = c
        /\ asmRet' = S.ret
        /\ asmMatched' = S.matched
        /\ UNCHANGED <<matchVars, addrVars, iselVars, toolVars, stepVars>>

NextAsm == SelectInlineAsmMemoryOperandCall

SpecAsm == Init /\ [][NextAsm]_vars

-----------------------------------------------------------------------------
(* Select calls *)

\* A legalized DAG is handed to the selector.
NewDAG ==
    /\ dag = << >>
    /\ dag' \in InputDAGs
    /\ preDag' = dag'
    /\ selNode' = 0
    /\ selResult' = 0
    /\ UNCHANGED <<matchVars, addrVars, asmVars, toolVars, stepVars>>

SelectCall ==
    /\ dag # << >>
    /\ \E i \in NodeIds : dag[i] = FreeSlot
    /\ \E id \in NodeIds, generic \in {"null", "morph"} :
        /\ dag[id] # FreeSlot
        /\ LET S == Select(dag, id, generic) IN
           /\ dag' = S.dag
           /\ selResult' = S.result
        /\ preDag' = dag
        /\ selNode' = id
    /\ UNCHANGED <<matchVars, addrVars, asmVars, toolVars, stepVars>>

NextISel == NewDAG \/ SelectCall

SpecISel == Init /\ [][NextISel]_vars

-----------------------------------------------------------------------------
(* ToolRunner entry points, one RunProgramWithTimeout call per step *)

\* An entry point is called.
ToolStart ==
    /\ toolPc \in {"idle", "done"}
    /\ \E op \in EntryPoints, ft \in FileTypes :
        /\ op = "LLC::ExecuteProgram" => ft = "AsmFile"
        /\ op = "CBE::ExecuteProgram" => ft = "CFile"
        /\ op \in {"LLC::compileProgram", "CBE::compileProgram"} => ft = "AsmFile"
        /\ toolOp' = op
        /\ fileType' = ft
        /\ toolPc' = IF op \in {"GCC::ExecuteProgram", "GCC::MakeSharedObject"}
                     THEN "gcc" ELSE "llc"
    /\ runs' = << >>
    /\ outcome' = NoOutcome
    /\ UNCHANGED <<matchVars, addrVars, asmVars, iselVars, stepVars>>

\* LLC::OutputAsm and CBE::OutputC run llc.
RunLLC ==
    /\ toolPc = "llc"
    /\ \E e \in ExitCodes :
        /\ runs' = Append(runs, Run("llc", LLCArgs(toolOp), FALSE, e, FALSE, ""))
        /\ IF e # 0
           THEN toolPc' = "ProcessFailure" /\ outcome' = outcome
           ELSE IF toolOp \in {"LLC::compileProgram", "CBE::compileProgram"}
                THEN toolPc' = "done" /\ outcome' = Returned(0)
                ELSE toolPc' = "gcc" /\ outcome' = outcome
    /\ UNCHANGED <<toolOp, fileType, matchVars, addrVars, asmVars, iselVars, stepVars>>

\* GCC::ExecuteProgram and GCC::MakeSharedObject run gcc.
RunGCC ==
    /\ toolPc = "gcc"
    /\ \E e \in ExitCodes :
        /\ runs' = Append(runs, Run("gcc", GCCArgs(toolOp, fileType), FALSE, e,
                                    FALSE, ""))
        /\ IF e # 0
           THEN toolPc' = "ProcessFailure" /\ outcome' = outcome
           ELSE IF toolOp = "GCC::MakeSharedObject"
                THEN toolPc' = "done" /\ outcome' = Returned(0)
                ELSE toolPc' = "program" /\ outcome' = outcome
    /\ UNCHANGED <<toolOp, fileType, matchVars, addrVars, asmVars, iselVars, stepVars>>

\* GCC::ExecuteProgram runs the output binary and returns its exit code.
RunProgram ==
    /\ toolPc = "program"
    /\ \E e \in ExitCodes :
        /\ runs' = Append(runs, Run("program", <<"gcc.exe">>, FALSE, e, FALSE, ""))
        /\ outcome' = Returned(e)
    /\ toolPc' = "done"
    /\ UNCHANGED <<toolOp, fileType, matchVars, addrVars, asmVars, iselVars, stepVars>>

\* ProcessFailure: the failed tool is run again with its output sent to the
\* error file; what follows in the caller is taken if ProcessFailure returns.
ProcessFailureCall ==
    /\ toolPc = "ProcessFailure"
    /\ \E e \in ExitCodes, opens \in BOOLEAN, text \in ErrorTexts :
        LET Failed == runs[Len(runs)]
            PF == ProcessFailure(Failed.Args, opens, text)
        IN
        /\ ~opens => text = ""
        /\ runs' = Append(runs, Run(Failed.tool, Failed.Args, TRUE, e, opens, text))
        /\ IF PF.throws
           THEN toolPc' = "done" /\ outcome' = Thrown(PF.Args, PF.messages)
           ELSE IF Failed.tool = "llc"
                THEN IF toolOp \in {"LLC::compileProgram", "CBE::compileProgram"}
                     THEN toolPc' = "done" /\ outcome' = Returned(0)
                     ELSE toolPc' = "gcc" /\ outcome' = outcome
                ELSE IF toolOp = "GCC::MakeSharedObject"
                     THEN toolPc' = "done" /\ outcome' = Returned(1)
                     ELSE toolPc' = "done" /\ outcome' = Exited(1)
    /\ UNCHANGED <<toolOp, fileType, matchVars, addrVars, asmVars, iselVars, stepVars>>

NextTool == ToolStart \/ RunLLC \/ RunGCC \/ RunProgram \/ ProcessFailureCall

SpecTool == Init /\ [][NextTool]_vars

-----------------------------------------------------------------------------
(* MatchAddress, one invocation or return per step *)

\* A recursive call on the node itself.
CalleeSelf(N, site) == N

\* The node a recursive MatchAddress call is made on: operand 0 at the first
\* call of the first ADD trial, the second call of the second ADD trial and
\* the OR call, operand 1 at the other two.
Callee(N, site) ==
    IF site \in {"add.a0", "add.b0", "or.l"} THEN N[2] ELSE N[3]

\* The cases of MatchAddress that call MatchAddress.
Recurses(N) ==
    \/ Opcode(N) = "ADD"
    \/ Opcode(N) = "OR" /\ Opcode(N[3]) = "Constant"

Frame(N) == [N |-> N, pc |-> "entry", Backup |-> NullNode]

Top == stack[Len(stack)]

\* The invocation on top makes a recursive call from the given site.
CallFrom(site, Backup) ==
    /\ stack' = Append([stack EXCEPT ![Len(stack)] =
                           [N |-> Top.N, pc |-> site, Backup |-> Backup]],
                       Frame(Callee(Top.N, site)))
    /\ nCalls' = nCalls + 1
    /\ stepRet' = stepRet

\* The invocation on top returns R.ret and leaves the mode R.AM.
ReturnWith(R) ==
    /\ stack' = SubSeq(stack, 1, Len(stack) - 1)
    /\ curAM' = R.AM
    /\ stepRet' = R.ret
    /\ nCalls' = nCalls

\* Address modes an outermost call starts from: a fresh one, and one that
\* an earlier call left with a base or with a symbol.
StartModes(g) ==
    {NewAddressMode(g), MatchAddress(R1, NewAddressMode(g)).AM,
     MatchAddress(WGlobal, NewAddressMode(g)).AM}

\* MatchAddress is called from outside.  Outermost calls share nothing, so a
\* behaviour follows one of them.
StepStart ==
    /\ root = NullNode
    /\ \E N \in Nodes, g \in Indeterminate : \E AM \in StartModes(g) :
        /\ stack' = <<Frame(N)>>
        /\ curAM' = AM
        /\ root' = N
        /\ rootAM' = AM
    /\ nCalls' = 1
    /\ stepRet' = FALSE
    /\ UNCHANGED <<matchVars, addrVars, asmVars, iselVars, toolVars>>

\* The invocation on top runs from its entry to its first recursive call, or
\* to its return if its case makes none.
StepEnter ==
    /\ stack # << >>
    /\ Top.pc = "entry"
    /\ IF Opcode(Top.N) = "ADD"
       THEN CallFrom("add.a0", curAM) /\ curAM' = curAM
       ELSE IF Recurses(Top.N)
            THEN CallFrom("or.l", curAM) /\ curAM' = curAM
            ELSE ReturnWith(MatchAddress(Top.N, curAM))
    /\ UNCHANGED <<root, rootAM, matchVars, addrVars, asmVars, iselVars, toolVars>>

\* A recursive call has returned: the invocation on top runs on to its next
\* recursive call or to its return.
StepReturn ==
    /\ stack # << >>
    /\ Top.pc # "entry"
    /\ CASE Top.pc = "add.a0" ->
              IF ~stepRet
              THEN CallFrom("add.a1", Top.Backup) /\ curAM' = curAM
              ELSE CallFrom("add.b1", Top.Backup) /\ curAM' = Top.Backup
         [] Top.pc = "add.a1" ->
              IF ~stepRet
              THEN ReturnWith([ret |-> FALSE, AM |-> curAM])
              ELSE CallFrom("add.b1", Top.Backup) /\ curAM' = Top.Backup
         [] Top.pc = "add.b1" ->
              IF ~stepRet
              THEN CallFrom("add.b0", Top.Backup) /\ curAM' = curAM
              ELSE ReturnWith(MatchAddressBase(Top.N, AddRestore(Top.Backup, curAM)))
         [] Top.pc = "add.b0" ->
              IF ~stepRet
              THEN ReturnWith([ret |-> FALSE, AM |-> curAM])
              ELSE ReturnWith(MatchAddressBase(Top.N, AddRestore(Top.Backup, curAM)))
         [] Top.pc = "or.l" ->
              LET L == [ret |-> stepRet, AM |-> curAM] IN
              IF OrFolds(Top.N, L)
              THEN ReturnWith([ret |-> FALSE,
                               AM |-> [curAM EXCEPT !.Disp = ToInt16(@ + Top.N[3][2])]])
              ELSE ReturnWith(MatchAddressBase(Top.N, OrRestore(Top.Backup, L)))
    /\ UNCHANGED <<root, rootAM, matchVars, addrVars, asmVars, iselVars, toolVars>>

NextStep == StepStart \/ StepEnter \/ StepReturn

SpecStep == Init /\ [][NextStep]_vars

\* The code runs on without waiting for anything once it has been called.
LiveStep == SpecStep /\ WF_vars(StepEnter \/ StepReturn)

-----------------------------------------------------------------------------
(* Properties of the matcher calls (Spec) *)

IsCall == lastOp \in {"MatchAddress", "MatchWrapper", "MatchAddressBase"}

\* The symbolic fields of an address mode that are populated.
SymbolicKinds(AM) ==
    {k \in {"GV", "CP", "ES", "BlockAddr"} : AM[k] # NullPtr}
    \cup (IF AM.JT # NoJT THEN {"JT"} ELSE {})

\* A base is committed: a non-null register base or a frame-slot base.
BaseCommitted(AM) == AM.BaseType = "FrameIndexBase" \/ AM.Reg # NullNode

IsOrWithConst(N) == Opcode(N) = "OR" /\ Opcode(N[3]) = "Constant"

\* C1: after any sequence of MatchAddress / MatchWrapper calls on one address
\* mode at most one of GV, CP, ES, JT, BlockAddr is populated, and a
\* MatchWrapper call made while one is populated is rejected and populates
\* nothing.
C1_AtMostOneSymbolicKind ==
    lastOp # "none" =>
        /\ Cardinality(SymbolicKinds(am)) <= 1
        /\ (lastOp = "MatchWrapper" /\ SymbolicKinds(preAM) # {}) =>
               (ret = TRUE /\ am = preAM)

\* C2: once an address mode has a committed base, no later MatchAddress,
\* MatchWrapper or MatchAddressBase call changes the base kind or the base
\* value, and a frame-index node, a node without a case of its own and a
\* MatchAddressBase call all report failure.
C2_CommittedBaseIsKept ==
    (IsCall /\ BaseCommitted(preAM)) =>
        /\ am.BaseType = preAM.BaseType
        /\ am.Reg = preAM.Reg
        /\ am.FrameIndex = preAM.FrameIndex
        /\ (\/ lastOp = "MatchAddressBase"
            \/ lastOp = "MatchAddress" /\ Opcode(lastN) \in {"FrameIndex", "Other"}
            \/ lastOp = "MatchAddress" /\ Opcode(lastN) = "OR" /\ ~IsOrWithConst(lastN))
           => (ret = TRUE /\ am = preAM)

\* C2 witness: a frame-index node met an address mode whose base was another
\* frame slot, and was refused.
C2_Witness ==
    /\ lastOp = "MatchAddress"
    /\ Opcode(lastN) = "FrameIndex"
    /\ preAM.BaseType = "FrameIndexBase"
    /\ preAM.FrameIndex # lastN[2]
    /\ ret = TRUE

\* What the last MatchAddress call left if it folded the OR node lastN as an
\* addition: operand 0 folded into the mode it was given, then the constant
\* added to the displacement.
OrOperandResult == MatchAddress(lastN[2], preAM)

OrFoldedAsAdd ==
    /\ ret = FALSE
    /\ ~OrOperandResult.ret
    /\ am = [OrOperandResult.AM EXCEPT
                !.Disp = ((@ + lastN[3][2] + 32768) % 65536) - 32768]

C4_UnfoldedOrBecomesBase ==
    (lastOp = "MatchAddress" /\ IsOrWithConst(lastN) /\ ~MaskedValueIsZero(lastN)) =>
        /\ am.BaseType = "RegBase"
        /\ am.Reg = lastN
        /\ am.Disp = preAM.Disp
        /\ \A k \in {"GV", "CP", "ES", "JT", "BlockAddr", "Align"} : am[k] = preAM[k]

\* C4 amended: when the disjointness query is false and no base is committed
\* at entry, the call succeeds, the OR node becomes the register base and
\* every other field is as before; when a base is committed at entry the call
\* fails and the whole address mode is as before.
C4_UnfoldedOrBecomesBaseIfFree ==
    (lastOp = "MatchAddress" /\ IsOrWithConst(lastN) /\ ~MaskedValueIsZero(lastN)) =>
        IF BaseCommitted(preAM)
        THEN ret = TRUE /\ am = preAM
        ELSE ret = FALSE /\ am = [preAM EXCEPT !.Reg = lastN]

\* C4 witness: the OR was not folded although folding its operand 0 alone
\* would have changed the displacement and a symbolic field.
C4_Witness ==
    /\ lastOp = "MatchAddress"
    /\ IsOrWithConst(lastN)
    /\ ~MaskedValueIsZero(lastN)
    /\ ~OrOperandResult.ret
    /\ OrOperandResult.AM.Disp # preAM.Disp
    /\ OrOperandResult.AM.GV # preAM.GV
    /\ am.Reg = lastN

\* The symbolic field a wrapper payload goes to, and the offset it carries.
PayloadField(P) ==
    CASE Opcode(P) = "GlobalAddress" -> "GV"
      [] Opcode(P) = "ConstantPool" -> "CP"
      [] Opcode(P) = "ExternalSymbol" -> "ES"
      [] Opcode(P) = "JumpTable" -> "JT"
      [] Opcode(P) = "BlockAddress" -> "BlockAddr"

PayloadOffset(P) ==
    CASE Opcode(P) = "GlobalAddress" -> P[3]
      [] Opcode(P) = "ConstantPool" -> P[4]
      [] OTHER -> 0

Wrap16(x) == ((x + 32768) % 65536) - 32768

\* C11: MatchWrapper on an address mode with no symbolic field set succeeds,
\* populates exactly the field of the payload's kind, adds the payload's
\* offset (global and constant pool only) to the displacement and leaves the
\* base as it was; so ADD(Wrapper(Global G + a), Const c) matched from an
\* empty mode gives GV = G, displacement a + c and no base.
C11_WrapperPopulatesOneKind ==
    /\ ((lastOp = "MatchWrapper" \/ (lastOp = "MatchAddress" /\ Opcode(lastN) = "Wrapper"))
          /\ SymbolicKinds(preAM) = {}) =>
         LET P == lastN[2] IN
         /\ ret = FALSE
         /\ SymbolicKinds(am) = {PayloadField(P)}
         /\ am[PayloadField(P)] = P[2]
         /\ am.Disp = Wrap16(preAM.Disp + PayloadOffset(P))
         /\ am.BaseType = preAM.BaseType
         /\ am.Reg = preAM.Reg
         /\ am.FrameIndex = preAM.FrameIndex
    /\ (lastOp = "MatchAddress" /\ calls = 1 /\ Opcode(lastN) = "ADD"
          /\ Opcode(lastN[2]) = "Wrapper" /\ Opcode(lastN[2][2]) = "GlobalAddress"
          /\ Opcode(lastN[3]) = "Constant") =>
         /\ ret = FALSE
         /\ am.GV = lastN[2][2][2]
         /\ SymbolicKinds(am) = {"GV"}
         /\ am.Disp = Wrap16(lastN[2][2][3] + lastN[3][2])
         /\ ~BaseCommitted(am)

\* C11 witness: ADD(Wrapper(Global G + 4), Const 2) was matched from an empty
\* mode and gave G with displacement 6.
C11_Witness ==
    /\ lastOp = "MatchAddress"
    /\ calls = 1
    /\ lastN = GlobalPlusTwo
    /\ am.GV = "G"
    /\ am.Disp = 6
    /\ am.Reg = NullNode

\* C14: a MatchAddress call that reports failure leaves the address mode
\* equal in every field to its value at entry.
C14_FailedMatchLeavesModeUnchanged ==
    (lastOp = "MatchAddress" /\ ret) => am = preAM

\* C14 witness: ADD(register, constant) failed on a committed base although
\* its constant operand alone matches and would have moved the displacement.
C14_Witness ==
    /\ lastOp = "MatchAddress"
    /\ ret
    /\ Opcode(lastN) = "ADD"
    /\ Opcode(lastN[2]) = "Other"
    /\ Opcode(lastN[3]) = "Constant"
    /\ ~MatchAddress(lastN[3], preAM).ret
    /\ MatchAddress(lastN[3], preAM).AM # preAM
    /\ am = preAM

-----------------------------------------------------------------------------
(* Properties of SelectAddr (SpecAddr) *)

RECURSIVE IsConstSum(_)
IsConstSum(N) ==
    \/ Opcode(N) = "Constant"
    \/ Opcode(N) = "ADD" /\ IsConstSum(N[2]) /\ IsConstSum(N[3])

RECURSIVE SumOfLeaves(_)
SumOfLeaves(N) ==
    IF Opcode(N) = "Constant" THEN N[2] ELSE SumOfLeaves(N[2]) + SumOfLeaves(N[3])

\* C5: for an expression of integer constants and ADD nodes only, MatchAddress
\* from an empty address mode succeeds with the displacement equal to the sum
\* of the constant leaves modulo 2^16 as a signed 16-bit value, the register
\* base empty, the base kind register and no symbolic field set.
C5_ConstantSumIsDisplacement ==
    (selN # NullNode /\ IsConstSum(selN)) =>
        /\ selRet = TRUE
        /\ selAM.Disp \in -32768..32767
        /\ (selAM.Disp - SumOfLeaves(selN)) % 65536 = 0
        /\ selAM.BaseType = "RegBase"
        /\ selAM.Reg = NullNode
        /\ SymbolicKinds(selAM) = {}

\* C5 witness: a sum of three constants that does not fit 16 bits was matched.
C5_Witness ==
    /\ selN # NullNode
    /\ IsConstSum(selN)
    /\ Opcode(selN) = "ADD"
    /\ SumOfLeaves(selN) > 32767
    /\ selAM.Disp < 0

\* C6: SelectAddr produces exactly one displacement operand form, the first
\* that applies of global (with the displacement), constant pool (with
\* alignment and displacement), external symbol, jump table, block address,
\* plain displacement; the plain form only when no symbolic field is set.
C6_DispOperandPrecedence ==
    (selN # NullNode /\ selRet) =>
        /\ Opcode(Disp) \in {"TargetGlobalAddress", "TargetConstantPool",
                             "TargetExternalSymbol", "TargetJumpTable",
                             "TargetBlockAddress", "TargetConstant"}
        /\ selAM.GV # NullPtr => Disp = <<"TargetGlobalAddress", selAM.GV, selAM.Disp>>
        /\ (selAM.GV = NullPtr /\ selAM.CP # NullPtr) =>
               Disp = <<"TargetConstantPool", selAM.CP, selAM.Align, selAM.Disp>>
        /\ (selAM.GV = NullPtr /\ selAM.CP = NullPtr /\ selAM.ES # NullPtr) =>
               Disp = <<"TargetExternalSymbol", selAM.ES>>
        /\ (selAM.GV = NullPtr /\ selAM.CP = NullPtr /\ selAM.ES = NullPtr
              /\ selAM.JT # NoJT) =>
               Disp = <<"TargetJumpTable", selAM.JT>>
        /\ (selAM.GV = NullPtr /\ selAM.CP = NullPtr /\ selAM.ES = NullPtr
              /\ selAM.JT = NoJT /\ selAM.BlockAddr # NullPtr) =>
               Disp = <<"TargetBlockAddress", selAM.BlockAddr>>
        /\ SymbolicKinds(selAM) = {} => Disp = <<"TargetConstant", selAM.Disp>>
        /\ Opcode(Disp) = "TargetConstant" => SymbolicKinds(selAM) = {}

\* C6 witness: the order decided the form: a mode holding a global and a block
\* address gave the global form.
C6_Witness ==
    /\ selN # NullNode
    /\ selRet
    /\ selAM.GV # NullPtr
    /\ selAM.BlockAddr # NullPtr
    /\ Opcode(Disp) = "TargetGlobalAddress"

\* The fields of an address mode that hold a value: Base.FrameIndex only under
\* FrameIndexBase, Base.Reg only under RegBase.
SameMode(A, B) ==
    /\ A.BaseType = B.BaseType
    /\ IF A.BaseType = "RegBase" THEN A.Reg = B.Reg ELSE A.FrameIndex = B.FrameIndex
    /\ \A k \in {"Disp", "GV", "CP", "ES", "JT", "BlockAddr", "Align"} : A[k] = B[k]

C10_FrameIndexPlusConstant ==
    (selN # NullNode /\ Opcode(selN) = "ADD" /\ Opcode(selN[2]) = "FrameIndex"
        /\ Opcode(selN[3]) = "Constant") =>
        /\ selRet = TRUE
        /\ selAM.BaseType = "FrameIndexBase"
        /\ selAM.FrameIndex = selN[2][2]
        /\ selAM.Disp = selN[3][2]
        /\ SymbolicKinds(selAM) = {}
        /\ Base = <<"TargetFrameIndex", selN[2][2]>>
        /\ Disp = <<"TargetConstant", selN[3][2]>>

\* C10 witness: ADD(FrameIndex(5), Const(8)) was selected.
C10_Witness ==
    /\ selN = <<"ADD", <<"FrameIndex", 5>>, <<"Constant", 8>>>>
    /\ Base = <<"TargetFrameIndex", 5>>
    /\ Disp = <<"TargetConstant", 8>>

\* C15: a match that starts from a freshly constructed address mode never
\* fails: MatchAddress returns false, so SelectAddr returns true and
\* SelectInlineAsmMemoryOperand with constraint 'm' returns false.
C15_TopLevelMatchNeverFails ==
    selN # NullNode =>
        /\ selRet = TRUE
        /\ \A g \in Indeterminate :
             /\ ~MatchAddress(selN, NewAddressMode(g)).ret
             /\ ~SelectInlineAsmMemoryOperand(selN, "m", << >>, g).ret

\* C15 witness: an ADD of two registers, whose operands cannot both be
\* matched, was selected with the whole ADD as the base.
C15_Witness ==
    /\ selN = <<"ADD", R1, <<"Other", 2>>>>
    /\ selRet = TRUE
    /\ selAM.Reg = selN
    /\ Base = selN

\* The addresses the symbols, frame slots and registers stand for at run
\* time.  Any assignment will do; this one keeps them apart.
SymbolAddress(kind, id) ==
    CASE kind \in {"GlobalAddress", "TargetGlobalAddress"} -> 4096
      [] kind \in {"ConstantPool", "TargetConstantPool"} -> 8192
      [] kind \in {"ExternalSymbol", "TargetExternalSymbol"} -> 12288
      [] kind \in {"JumpTable", "TargetJumpTable"} -> 16384 + 64 * id
      [] kind \in {"BlockAddress", "TargetBlockAddress"} -> 20480

FrameAddress(i) == 256 + 16 * i

RegisterValue(r) == 1024 * r

\* The expressions whose value is defined: constants, ADD, OR of a value
\* with a constant whose bits are clear in it, frame indices, wrappers and
\* opaque registers.
RECURSIVE HasValue(_)
HasValue(N) ==
    CASE Opcode(N) = "ADD" -> HasValue(N[2]) /\ HasValue(N[3])
      [] Opcode(N) = "OR" ->
           Opcode(N[3]) = "Constant" /\ MaskedValueIsZero(N) /\ HasValue(N[2])
      [] OTHER -> TRUE

\* The address an expression denotes.
RECURSIVE ValueOf(_)
ValueOf(N) ==
    CASE Opcode(N) = "Constant" -> N[2]
      [] Opcode(N) = "FrameIndex" -> FrameAddress(N[2])
      [] Opcode(N) = "Other" -> RegisterValue(N[2])
      [] Opcode(N) = "Wrapper" ->
           SymbolAddress(Opcode(N[2]), N[2][2]) + PayloadOffset(N[2])
      [] Opcode(N) = "ADD" -> ValueOf(N[2]) + ValueOf(N[3])
      [] Opcode(N) = "OR" -> ValueOf(N[2]) + ValueOf(N[3])

\* The address an operand produced by SelectAddr denotes.
OperandValue(Op) ==
    CASE Opcode(Op) = "TargetFrameIndex" -> FrameAddress(Op[2])
      [] Opcode(Op) = "Register" -> 0
      [] Opcode(Op) = "TargetConstant" -> Op[2]
      [] Opcode(Op) = "TargetGlobalAddress" -> SymbolAddress(Op[1], Op[2]) + Op[3]
      [] Opcode(Op) = "TargetConstantPool" -> SymbolAddress(Op[1], Op[2]) + Op[4]
      [] Opcode(Op) \in {"TargetExternalSymbol", "TargetJumpTable",
                         "TargetBlockAddress"} -> SymbolAddress(Op[1], Op[2])
      [] OTHER -> ValueOf(Op)

\* C16: the operands produced by SelectAddr denote the address of the
\* matched expression: value of Base plus value of Disp equals the value of
\* the expression modulo 2^16.
C16_OperandsDenoteTheAddress ==
    (selN # NullNode /\ selRet /\ HasValue(selN)) =>
        (OperandValue(Base) + OperandValue(Disp) - ValueOf(selN)) % 65536 = 0

-----------------------------------------------------------------------------
(* Properties of the recursion of MatchAddress (LiveStep) *)

\* Nesting depth of a node, and the number of MatchAddress invocations a
\* call on it can make at most: both passes of an ADD over both operands,
\* one pass of an OR over its left operand.
RECURSIVE Depth(_)
Depth(N) ==
    IF Opcode(N) \in {"ADD", "OR"}
    THEN 1 + (IF Depth(N[2]) > Depth(N[3]) THEN Depth(N[2]) ELSE Depth(N[3]))
    ELSE 1

RECURSIVE MostCalls(_)
MostCalls(N) ==
    CASE Opcode(N) = "ADD" -> 1 + 2 * (MostCalls(N[2]) + MostCalls(N[3]))
      [] Opcode(N) = "OR" -> 1 + MostCalls(N[2])
      [] OTHER -> 1

\* Every active invocation but the outermost is on an operand of the node of
\* the invocation that called it.
CallsAreOnOperands ==
    \A i \in 2..Len(stack) :
        /\ Opcode(stack[i - 1].N) \in {"ADD", "OR"}
        /\ stack[i].N \in {stack[i - 1].N[2], stack[i - 1].N[3]}
        /\ Depth(stack[i].N) < Depth(stack[i - 1].N)

\* C12: matching terminates: every recursive MatchAddress call is on a
\* strict operand of the current node, through both orders of ADD and the
\* left operand of OR, so the nesting never exceeds the depth of the
\* expression, the number of invocations is bounded by its size, and every
\* outermost call returns.
C12_MatchAddressTerminates ==
    /\ [](root # NullNode =>
            /\ CallsAreOnOperands
            /\ Len(stack) <= Depth(root)
            /\ nCalls <= MostCalls(root))
    /\ (stack # << >>) ~> (stack = << >>)

\* C12 witness: an ADD of an ADD failed its first trial and is in the second
\* call of its second trial, three invocations deep.
C12_Witness ==
    /\ Len(stack) = 3
    /\ stack[1].pc = "add.b0"
    /\ Opcode(stack[1].N) = "ADD"
    /\ Opcode(stack[2].N) = "ADD"
    /\ nCalls > 6

\* The result of an outermost call is the one MatchAddress gives.
StepAgreesWithMatchAddress ==
    (root # NullNode /\ stack = << >>) =>
        /\ stepRet = MatchAddress(root, rootAM).ret
        /\ curAM = MatchAddress(root, rootAM).AM

-----------------------------------------------------------------------------
(* Properties of the tool runs (SpecTool) *)

\* Run i is a compile stage (llc or gcc, not a rerun) that exited nonzero.
FailedStage(i) ==
    /\ runs[i].tool \in {"llc", "gcc"}
    /\ ~runs[i].captured
    /\ runs[i].exit # 0

\* C13: a failed llc or gcc run is followed only by ProcessFailure's rerun
\* of the same command line with the output captured, and the entry point
\* ends by throwing ToolExecutionError with that command line and the
\* captured messages; so gcc is never run after a failed llc, the output
\* binary never after a failed gcc, and GCC::MakeSharedObject never returns
\* a nonzero value.
C13_FailedStageEndsInException ==
    /\ \A i \in 1..Len(runs) : FailedStage(i) =>
         /\ \A j \in (i + 1)..Len(runs) :
              /\ j = i + 1
              /\ runs[j].captured
              /\ runs[j].tool = runs[i].tool
              /\ runs[j].Args = runs[i].Args
         /\ toolPc \in {"ProcessFailure", "done"}
         /\ toolPc = "ProcessFailure" <=> Len(runs) = i
         /\ toolPc = "done" =>
              /\ outcome.kind = "throw"
              /\ outcome.Args = runs[i].Args
              /\ runs[i + 1].opens => outcome.messages = runs[i + 1].text
    /\ \A i \in 1..Len(runs) :
         /\ runs[i].captured => (i > 1 /\ FailedStage(i - 1))
         /\ (i > 1 /\ runs[i].tool = "program") => runs[i - 1].exit = 0
         /\ (i > 1 /\ runs[i].tool = "gcc" /\ ~runs[i].captured) =>
              (runs[i - 1].tool = "llc" /\ runs[i - 1].exit = 0)
    /\ (toolOp = "GCC::MakeSharedObject" /\ outcome.kind = "return") =>
         outcome.value = 0
    /\ outcome.kind \in {"none", "return", "throw"}

\* C13 witness: LLC::ExecuteProgram ran llc, then gcc, which failed; gcc was
\* run again with its output captured and the call ended in the exception
\* carrying the captured text, although the rerun itself exited with 0.
C13_Witness ==
    /\ toolOp = "LLC::ExecuteProgram"
    /\ toolPc = "done"
    /\ Len(runs) = 3
    /\ runs[2].tool = "gcc"
    /\ runs[2].exit # 0
    /\ runs[3].captured
    /\ runs[3].exit = 0
    /\ outcome.kind = "throw"
    /\ outcome.messages = "error"

-----------------------------------------------------------------------------
(* Properties of SelectInlineAsmMemoryOperand (SpecAsm) *)

\* C8: SelectInlineAsmMemoryOperand returns true for every constraint code
\* other than 'm' without running the matcher, and for 'm' returns true
\* exactly when the address match fails; when it returns true OutOps is
\* unchanged, and when it returns false exactly the base and then the
\* displacement operand were appended.
C8_InlineAsmMemoryOperand ==
    asmOp # NullNode =>
        LET M == MatchAddress(asmOp, NewAddressMode(CHOOSE g \in Indeterminate : TRUE)) IN
        /\ asmCode # "m" => (asmRet = TRUE /\ ~asmMatched)
        /\ asmCode = "m" => (asmMatched /\ (asmRet <=> M.ret))
        /\ asmRet => OutOps = preOutOps
        /\ ~asmRet =>
              /\ Len(OutOps) = Len(preOutOps) + 2
              /\ SubSeq(OutOps, 1, Len(preOutOps)) = preOutOps
              /\ OutOps[Len(preOutOps) + 1] = BaseOperand(M.AM)
              /\ OutOps[Len(preOutOps) + 2] = DispOperand(M.AM)

\* C8 witness: a call with a code other than 'm' failed and left a non-empty
\* OutOps as it was.
C8_Witness ==
    /\ asmOp # NullNode
    /\ asmCode # "m"
    /\ asmRet
    /\ Len(OutOps) = 2
    /\ OutOps = preOutOps

-----------------------------------------------------------------------------
(* Properties of Select (SpecISel) *)

\* C7: Select on a frame-index node builds ADD16ri(target frame index, 0): a
\* node with exactly one use is rewritten in place and returned, no node being
\* allocated; with any other number of uses a node is allocated and returned
\* and the node selected is left as it was.
C7_FrameIndexSelection ==
    (selNode # 0 /\ preDag[selNode].Opc = "FrameIndex") =>
        LET n == preDag[selNode]
            IsAdd16ri(m) ==
                /\ m.Opc = "ADD16ri"
                /\ m.Machine
                /\ m.Ops = <<<<"TargetFrameIndex", n.FI>>, <<"TargetConstant", 0>>>>
        IN IF n.Uses = 1
           THEN /\ selResult = selNode
                /\ IsAdd16ri(dag[selNode])
                /\ \A j \in NodeIds \ {selNode} : dag[j] = preDag[j]
           ELSE /\ selResult \in NodeIds \ {selNode}
                /\ preDag[selResult] = FreeSlot
                /\ IsAdd16ri(dag[selResult])
                /\ \A j \in NodeIds \ {selResult} : dag[j] = preDag[j]

\* C7 witness: a frame-index node with two uses was selected, a node was
\* allocated for it and the node itself is still a frame index.
C7_Witness ==
    /\ selNode # 0
    /\ preDag[selNode].Opc = "FrameIndex"
    /\ preDag[selNode].Uses = 2
    /\ selResult # selNode
    /\ dag[selNode].Opc = "FrameIndex"
    /\ dag[selResult].Opc = "ADD16ri"

====
